---- MODULE Spec2Model ----
(***************************************************************************)
(* Model of botocore/configprovider.py: the configuration providers, the   *)
(* ChainProvider, the ConfigChainFactory and the ConfigValueStore.         *)
(*                                                                         *)
(* Python values are records [t, s, n]: t is the type, s the characters of *)
(* a str, n the number of an int or bool.  A dict (the environment, the    *)
(* session's mappings, the store's two maps) is a function over a fixed    *)
(* key set whose value NoKey marks a key that is not in the dict.          *)
(***************************************************************************)
EXTENDS Integers, Sequences, FiniteSets, TLC

VARIABLES
    overrides,   \* ConfigValueStore._overrides
    mapping,     \* ConfigValueStore._mapping
    environ,     \* the environment map the providers hold a reference to
    session,     \* the session: instance_variables() and get_scoped_config()
    params,      \* the arguments of the last create_config_chain call
    chain,       \* the ChainProvider under test (chain specifications)
    result       \* what the last call did: operation, outcome, calls made

vars == <<overrides, mapping, environ, session, params, chain, result>>

----------------------------------------------------------------------------
(* Bounds of the model *)

\* longest provider list handed to ChainProvider.__init__
MaxChainLen == 3
\* longest list of names handed to EnvironmentProvider
MaxEnvNames == 2

----------------------------------------------------------------------------
(* Python values *)

None == [t |-> "None", s |-> <<>>, n |-> 0]
StrV(s) == [t |-> "str", s |-> s, n |-> 0]
IntV(n) == [t |-> "int", s |-> <<>>, n |-> n]
BoolV(b) == [t |-> "bool", s |-> <<>>, n |-> IF b THEN 1 ELSE 0]
EmptyDict == [t |-> "dict", s |-> <<>>, n |-> 0]
\* not a Python value: the marker of a key that is absent from a dict
NoKey == [t |-> "<no key>", s |-> <<>>, n |-> 0]

\* an argument that is None where the argument is a name or a function
NoneArg == "<None>"

\* Python truthiness, bool(v): what `if v:` tests, where the source tests
\* `is not None` and `in`
Truthy(v) ==
    CASE v.t = "None" -> FALSE
      [] v.t = "str" -> v.s # <<>>
      [] v.t = "int" -> v.n # 0
      [] v.t = "bool" -> v.n # 0
      [] v.t = "dict" -> FALSE
      [] OTHER -> FALSE

\* the outcome of a call: a returned value or a raised exception
Return(v) == [raised |-> "", value |-> v]
Raise(e) == [raised |-> e, value |-> None]

Digits == {"0", "1", "2", "3", "4", "5", "6", "7", "8", "9"}

DigitVal(c) ==
    CASE c = "0" -> 0 [] c = "1" -> 1 [] c = "2" -> 2 [] c = "3" -> 3
      [] c = "4" -> 4 [] c = "5" -> 5 [] c = "6" -> 6 [] c = "7" -> 7
      [] c = "8" -> 8 [] c = "9" -> 9

RECURSIVE ParseDigits(_, _)
ParseDigits(s, acc) ==
    IF s = <<>> THEN acc
    ELSE ParseDigits(Tail(s), acc * 10 + DigitVal(Head(s)))

\* the builtin int, the conversion_func of the metadata_service_* chains:
\* a str of decimal digits parses, any other str is a ValueError, an int is
\* itself, a bool its number, None and a dict are a TypeError
PyInt(v) ==
    CASE v.t = "str" ->
            IF v.s # <<>> /\ \A i \in 1..Len(v.s) : v.s[i] \in Digits
            THEN Return(IntV(ParseDigits(v.s, 0)))
            ELSE Raise("ValueError")
      [] v.t = "int" -> Return(v)
      [] v.t = "bool" -> Return(IntV(v.n))
      [] OTHER -> Raise("TypeError")

\* dict.get(key): None when the key is absent
DictGet(d, key) == IF d[key] = NoKey THEN None ELSE d[key]

----------------------------------------------------------------------------
(* The leaf providers *)

ConstantProvider(value) ==
    [kind |-> "ConstantProvider", value |-> value]

\* names is a str (list = FALSE, items = <<name>>) or a list of str
EnvironmentProvider(names) ==
    [kind |-> "EnvironmentProvider", names |-> names]

ScopedConfigProvider(config_var_name) ==
    [kind |-> "ScopedConfigProvider", var |-> config_var_name]

InstanceVarProvider(instance_var) ==
    [kind |-> "InstanceVarProvider", var |-> instance_var]

NameStr(name) == [list |-> FALSE, items |-> <<name>>]
NameList(items) == [list |-> TRUE, items |-> items]

ConstantProvide(p) == p.value

\* `if not isinstance(names, list): names = [names]`
NamesAsList(names) == IF names.list THEN names.items ELSE <<names.items[1]>>

\* `name in self._env`, read as truthiness of the value
InEnvTruthy(name, env) == env[name] # NoKey /\ Truthy(env[name])

\* `name in self._env`
InEnv(name, env) == env[name] # NoKey

RECURSIVE EnvironmentLoop(_, _)
EnvironmentLoop(names, env) ==
    IF names = <<>> THEN None
    ELSE IF InEnv(Head(names), env) THEN env[Head(names)]
    ELSE EnvironmentLoop(Tail(names), env)

EnvironmentProvide(p, env) == EnvironmentLoop(NamesAsList(p.names), env)

\* provide() reading the config section the session had when the provider
\* was built (an empty one) instead of the current one
ScopedConfigProvideAtConstruction(p, sess) ==
    DictGet([n \in DOMAIN sess.scoped_config |-> NoKey], p.var)

ScopedConfigProvide(p, sess) == DictGet(sess.scoped_config, p.var)

InstanceVarProvide(p, sess) == DictGet(sess.instance_variables, p.var)

LeafProvide(p, env, sess) ==
    CASE p.kind = "ConstantProvider" -> ConstantProvide(p)
      [] p.kind = "EnvironmentProvider" -> EnvironmentProvide(p, env)
      [] p.kind = "ScopedConfigProvider" -> ScopedConfigProvide(p, sess)
      [] p.kind = "InstanceVarProvider" -> InstanceVarProvide(p, sess)

----------------------------------------------------------------------------
(* ChainProvider *)

ChainProvider(providers, conversion_func) ==
    [kind |-> "ChainProvider", providers |-> providers,
     conv |-> conversion_func]

\* a call's trace: its outcome, the indices of the chain's providers whose
\* provide() ran, and the values the conversion function was called with
Trace(out, invoked, converted) ==
    [out |-> out, invoked |-> invoked, converted |-> converted]

\* the conversion functions a chain is built with (NoneArg: none)
ApplyConv(conv, value) ==
    CASE conv = "int" -> PyInt(value)

\* _convert_type that turns a failed conversion into None
ConvertTypeSwallow(conv, value) ==
    IF conv # NoneArg
    THEN IF ApplyConv(conv, value).raised # ""
         THEN Return(None) ELSE ApplyConv(conv, value)
    ELSE Return(value)

ConvertType(conv, value) ==
    IF conv # NoneArg THEN ApplyConv(conv, value) ELSE Return(value)

\* `if value:` in place of `if value is not None:`
IsTruthyValue(value) == Truthy(value)

IsNotNone(value) == value # None

\* the end of provide(), converting the None it is about to return
ChainExhaustedConverting(conv, invoked) ==
    IF conv # NoneArg
    THEN Trace(ApplyConv(conv, None), invoked, <<None>>)
    ELSE Trace(Return(None), invoked, <<>>)

\* `return None` after the loop
ChainExhausted(conv, invoked) == Trace(Return(None), invoked, <<>>)

\* the loop of provide(), from provider i on
RECURSIVE ChainLoop(_, _, _, _, _)
ChainLoop(c, i, invoked, env, sess) ==
    IF i > Len(c.providers) THEN ChainExhausted(c.conv, invoked)
    ELSE LET value == LeafProvide(c.providers[i], env, sess)
         IN IF IsNotNone(value)
            THEN Trace(ConvertType(c.conv, value), Append(invoked, i),
                       IF c.conv # NoneArg THEN <<value>> ELSE <<>>)
            ELSE ChainLoop(c, i + 1, Append(invoked, i), env, sess)

ChainProvide(c, env, sess) == ChainLoop(c, 1, <<>>, env, sess)

\* provider.provide() for any provider
Provide(p, env, sess) ==
    IF p.kind = "ChainProvider" THEN ChainProvide(p, env, sess)
    ELSE Trace(Return(LeafProvide(p, env, sess)), <<>>, <<>>)

----------------------------------------------------------------------------
(* ConfigChainFactory *)

\* env_var_names=None
NoneNames == [list |-> FALSE, items |-> <<>>]

\* create_config_chain with the environment stage put before the instance
\* variable stage
create_config_chain_permuted(instance_name, env_var_names, config_property_name, default, conversion_func) ==
    ChainProvider(
        (IF env_var_names # NoneNames
         THEN <<EnvironmentProvider(env_var_names)>> ELSE <<>>)
        \o (IF instance_name # NoneArg
            THEN <<InstanceVarProvider(instance_name)>> ELSE <<>>)
        \o (IF config_property_name # NoneArg
            THEN <<ScopedConfigProvider(config_property_name)>> ELSE <<>>)
        \o (IF default # None
            THEN <<ConstantProvider(default)>> ELSE <<>>),
        conversion_func)

\* create_config_chain with `if default:` in place of
\* `if default is not None:`
create_config_chain_truthy(instance_name, env_var_names, config_property_name, default, conversion_func) ==
    ChainProvider(
        (IF instance_name # NoneArg
         THEN <<InstanceVarProvider(instance_name)>> ELSE <<>>)
        \o (IF env_var_names # NoneNames
            THEN <<EnvironmentProvider(env_var_names)>> ELSE <<>>)
        \o (IF config_property_name # NoneArg
            THEN <<ScopedConfigProvider(config_property_name)>> ELSE <<>>)
        \o (IF Truthy(default)
            THEN <<ConstantProvider(default)>> ELSE <<>>),
        conversion_func)

create_config_chain(instance_name, env_var_names, config_property_name, default, conversion_func) ==
    ChainProvider(
        (IF instance_name # NoneArg
         THEN <<InstanceVarProvider(instance_name)>> ELSE <<>>)
        \o (IF env_var_names # NoneNames
            THEN <<EnvironmentProvider(env_var_names)>> ELSE <<>>)
        \o (IF config_property_name # NoneArg
            THEN <<ScopedConfigProvider(config_property_name)>> ELSE <<>>)
        \o (IF default # None
            THEN <<ConstantProvider(default)>> ELSE <<>>),
        conversion_func)

\* the entries of create_botocore_default_config_mapping the model keeps
DefaultConfigMapping ==
    [n \in {"region", "metadata_service_timeout"} |->
        IF n = "region"
        THEN create_config_chain("region", NameStr("AWS_DEFAULT_REGION"),
                                 "region", None, NoneArg)
        ELSE create_config_chain("metadata_service_timeout",
                                 NameStr("AWS_METADATA_SERVICE_TIMEOUT"),
                                 "metadata_service_timeout", IntV(1), "int")]

----------------------------------------------------------------------------
(* ConfigValueStore *)

LogicalNames == {"region", "metadata_service_timeout"}
EnvKeys == {"AWS_DEFAULT_REGION", "AWS_METADATA_SERVICE_TIMEOUT"}

\* the marker of a logical name that is not a key of _mapping
NoProvider == [kind |-> "<no key>"]

EmptyOverrides == [n \in LogicalNames |-> NoKey]
EmptyMapping == [n \in LogicalNames |-> NoProvider]
EmptyEnviron == [k \in EnvKeys |-> NoKey]
EmptySession ==
    [instance_variables |-> [n \in LogicalNames |-> NoKey],
     scoped_config |-> [n \in LogicalNames |-> NoKey]]

\* a store call's trace: the chain trace and whether the bound provider's
\* provide() was called
StoreTrace(tr, consulted) ==
    [out |-> tr.out, invoked |-> tr.invoked, converted |-> tr.converted,
     consulted |-> consulted]

\* get_config_variable with `if self._overrides.get(logical_name):`
GetConfigVariableTruthy(logical_name, ov, mp, env, sess) ==
    IF ov[logical_name] # NoKey /\ Truthy(ov[logical_name])
    THEN StoreTrace(Trace(Return(ov[logical_name]), <<>>, <<>>), FALSE)
    ELSE IF mp[logical_name] = NoProvider
    THEN StoreTrace(Trace(Return(None), <<>>, <<>>), FALSE)
    ELSE StoreTrace(Provide(mp[logical_name], env, sess), TRUE)

GetConfigVariable(logical_name, ov, mp, env, sess) ==
    IF ov[logical_name] # NoKey
    THEN StoreTrace(Trace(Return(ov[logical_name]), <<>>, <<>>), FALSE)
    ELSE IF mp[logical_name] = NoProvider
    THEN StoreTrace(Trace(Return(None), <<>>, <<>>), FALSE)
    ELSE StoreTrace(Provide(mp[logical_name], env, sess), TRUE)

\* `self._overrides[logical_name] = value`
OverridesSet(ov, logical_name, value) ==
    [ov EXCEPT ![logical_name] = value]

\* `self._overrides.clear()` in place of the pop
OverridesPopAll(ov, logical_name) == [n \in DOMAIN ov |-> NoKey]

\* `self._overrides.pop(logical_name, None)`
OverridesPop(ov, logical_name) == [ov EXCEPT ![logical_name] = NoKey]

\* `self._mapping.setdefault(logical_name, provider)` in place of the store
MappingSetDefault(mp, logical_name, provider) ==
    IF mp[logical_name] = NoProvider
    THEN [mp EXCEPT ![logical_name] = provider] ELSE mp

\* `self._mapping[logical_name] = provider`
MappingSet(mp, logical_name, provider) ==
    [mp EXCEPT ![logical_name] = provider]

RECURSIVE StoreInitLoop(_, _, _)
StoreInitLoop(mp, given, names) ==
    IF names = {} THEN mp
    ELSE LET n == CHOOSE x \in names : TRUE
         IN StoreInitLoop(MappingSet(mp, n, given[n]), given, names \ {n})

\* ConfigValueStore.__init__(mapping): _mapping after the constructor
StoreInit(given) == StoreInitLoop(EmptyMapping, given, DOMAIN given)

----------------------------------------------------------------------------
(* Inputs of the operations *)

\* what the last call did; name is the logical name and arg the value or
\* provider it was given
Result(op, name, arg, tr) ==
    [op |-> op, name |-> name, arg |-> arg, out |-> tr.out,
     invoked |-> tr.invoked, converted |-> tr.converted,
     consulted |-> tr.consulted]

NoCall == StoreTrace(Trace(Return(None), <<>>, <<>>), FALSE)

NoChain == [kind |-> "<no chain>"]
NoParams == [given |-> FALSE]

\* values a caller overrides a variable with: falsy ones and None included
OverrideValues == {None, StrV(<<>>), IntV(0)}

\* providers a caller binds with set_config_provider
ProviderChoices ==
    {DefaultConfigMapping["metadata_service_timeout"],
     ConstantProvider(StrV(<<"c">>))}

\* mappings handed to the constructor (None is the empty one)
ConstructorMappings ==
    {[n \in {} |-> NoProvider], DefaultConfigMapping}

\* values of an environment variable: always a str, maybe empty
EnvironValues == {StrV(<<>>), StrV(<<"7">>)}

\* values of a session instance variable and of a config-file property
InstanceValues == {StrV(<<"u", "s">>)}
ScopedValues == {StrV(<<"1", "2">>)}

----------------------------------------------------------------------------
(* The store and its collaborators: specification Spec *)

Init ==
    /\ overrides = EmptyOverrides
    /\ mapping \in {StoreInit(m) : m \in ConstructorMappings}
    /\ environ = EmptyEnviron
    /\ session = EmptySession
    /\ params = NoParams
    /\ chain = NoChain
    /\ result = Result("__init__", NoneArg, None, NoCall)

get_config_variable ==
    \E logical_name \in LogicalNames :
        /\ result' = Result("get_config_variable", logical_name, None,
                        GetConfigVariable(logical_name, overrides, mapping,
                                          environ, session))
        /\ UNCHANGED <<overrides, mapping, environ, session, params, chain>>

set_config_variable ==
    \E logical_name \in LogicalNames, value \in OverrideValues :
        /\ overrides' = OverridesSet(overrides, logical_name, value)
        /\ result' = Result("set_config_variable", logical_name, value, NoCall)
        /\ UNCHANGED <<mapping, environ, session, params, chain>>

clear_config_variable ==
    \E logical_name \in LogicalNames :
        /\ overrides' = OverridesPop(overrides, logical_name)
        /\ result' = Result("clear_config_variable", logical_name, None, NoCall)
        /\ UNCHANGED <<mapping, environ, session, params, chain>>

set_config_provider ==
    \E logical_name \in LogicalNames, provider \in ProviderChoices :
        /\ mapping' = MappingSet(mapping, logical_name, provider)
        /\ result' = Result("set_config_provider", logical_name, provider,
                            NoCall)
        /\ UNCHANGED <<overrides, environ, session, params, chain>>

\* the process sets or unsets an environment variable
EnvironChange ==
    \E k \in EnvKeys, v \in EnvironValues \cup {NoKey} :
        /\ environ[k] # v
        /\ environ' = [environ EXCEPT ![k] = v]
        /\ result' = Result("environ", NoneArg, None, NoCall)
        /\ UNCHANGED <<overrides, mapping, session, params, chain>>

\* the session sets or drops an instance variable
InstanceVarChange ==
    \E n \in LogicalNames, v \in InstanceValues \cup {NoKey} :
        /\ session.instance_variables[n] # v
        /\ session' = [session EXCEPT !.instance_variables[n] = v]
        /\ result' = Result("session", NoneArg, None, NoCall)
        /\ UNCHANGED <<overrides, mapping, environ, params, chain>>

\* the session's config file section gains, changes or loses a property
ScopedConfigChange ==
    \E n \in LogicalNames, v \in ScopedValues \cup {NoKey} :
        /\ session.scoped_config[n] # v
        /\ session' = [session EXCEPT !.scoped_config[n] = v]
        /\ result' = Result("session", NoneArg, None, NoCall)
        /\ UNCHANGED <<overrides, mapping, environ, params, chain>>

Next ==
    \/ get_config_variable
    \/ set_config_variable
    \/ clear_config_variable
    \/ set_config_provider
    \/ EnvironChange
    \/ InstanceVarChange
    \/ ScopedConfigChange

Spec == Init /\ [][Next]_vars

----------------------------------------------------------------------------
(* ChainProvider over instrumented providers: specification SpecChain *)

\* what the providers of a hand-built chain return
ChainValues ==
    {None, StrV(<<>>), StrV(<<"7">>), StrV(<<"a">>), IntV(0), EmptyDict}

ConversionFuncs == {NoneArg, "int"}

SeqsUpTo(S, n) == UNION {[1..k -> S] : k \in 0..n}

\* ChainProvider.__init__ over every provider list up to MaxChainLen
InitChain ==
    /\ overrides = EmptyOverrides
    /\ mapping = EmptyMapping
    /\ environ = EmptyEnviron
    /\ session = EmptySession
    /\ params = NoParams
    /\ chain \in {ChainProvider(ps, f) :
                    ps \in SeqsUpTo({ConstantProvider(v) : v \in ChainValues},
                                    MaxChainLen),
                    f \in ConversionFuncs}
    /\ result = Result("__init__", NoneArg, None, NoCall)

\* chain.provide()
provide ==
    /\ chain # NoChain
    /\ result' = Result("provide", NoneArg, None,
                    StoreTrace(ChainProvide(chain, environ, session), TRUE))
    /\ UNCHANGED <<overrides, mapping, environ, session, params, chain>>

NextChain == provide

SpecChain == InitChain /\ [][NextChain]_vars

----------------------------------------------------------------------------
(* ConfigChainFactory: specification SpecFactory *)

InstanceNames == {NoneArg, "region"}
EnvVarNames ==
    {NoneNames} \cup {NameStr(k) : k \in EnvKeys}
    \cup {NameList(l) : l \in SeqsUpTo(EnvKeys, MaxEnvNames)}
ConfigPropertyNames == {NoneArg, "region"}
Defaults == {None, StrV(<<>>), IntV(0), BoolV(FALSE), EmptyDict, IntV(1)}

\* the sources the factory's chains read, in any state
InitFactory ==
    /\ overrides = EmptyOverrides
    /\ mapping = EmptyMapping
    /\ environ \in [EnvKeys -> EnvironValues \cup {NoKey}]
    /\ \E iv \in InstanceValues \cup {NoKey, None},
          cv \in ScopedValues \cup {NoKey, None} :
          session = [instance_variables |->
                        [EmptySession.instance_variables
                            EXCEPT !["region"] = iv],
                     scoped_config |->
                        [EmptySession.scoped_config
                            EXCEPT !["region"] = cv]]
    /\ params = NoParams
    /\ chain = NoChain
    /\ result = Result("__init__", NoneArg, None, NoCall)

\* factory.create_config_chain(...), once per behaviour
CreateConfigChain ==
    \E instance_name \in InstanceNames, env_var_names \in EnvVarNames,
       config_property_name \in ConfigPropertyNames, default \in Defaults,
       conversion_func \in ConversionFuncs :
        /\ chain = NoChain
        /\ params' = [given |-> TRUE, instance_name |-> instance_name,
                      env_var_names |-> env_var_names,
                      config_property_name |-> config_property_name,
                      default |-> default,
                      conversion_func |-> conversion_func]
        /\ chain' = create_config_chain(instance_name, env_var_names,
                                        config_property_name, default,
                                        conversion_func)
        /\ result' = Result("create_config_chain", NoneArg, None, NoCall)
        /\ UNCHANGED <<overrides, mapping, environ, session>>

NextFactory ==
    \/ CreateConfigChain
    \/ provide

SpecFactory == InitFactory /\ [][NextFactory]_vars

----------------------------------------------------------------------------
(* What the claims expect, stated without the model's loops *)

Least(S) == CHOOSE i \in S : \A j \in S : i <= j

\* the value a source currently holds for a leaf provider, None if none
SourceValue(p, env, sess) ==
    CASE p.kind = "ConstantProvider" -> p.value
      [] p.kind = "EnvironmentProvider" ->
            LET names == p.names.items
                present == {i \in 1..Len(names) : env[names[i]] # NoKey}
            IN IF present = {} THEN None ELSE env[names[Least(present)]]
      [] p.kind = "ScopedConfigProvider" ->
            IF sess.scoped_config[p.var] = NoKey THEN None
            ELSE sess.scoped_config[p.var]
      [] p.kind = "InstanceVarProvider" ->
            IF sess.instance_variables[p.var] = NoKey THEN None
            ELSE sess.instance_variables[p.var]

\* the providers of chain c that currently yield a value
Yielding(c, env, sess) ==
    {i \in 1..Len(c.providers) : SourceValue(c.providers[i], env, sess) # None}

\* conversion_func(v), or v when there is no conversion function
Converted(conv, v) ==
    IF conv = NoneArg THEN Return(v)
    ELSE IF conv = "int" THEN PyInt(v) ELSE Raise("unknown")

\* what a chain resolves to from the sources as they are now
Resolved(c, env, sess) ==
    IF Yielding(c, env, sess) = {} THEN Return(None)
    ELSE Converted(c.conv,
            SourceValue(c.providers[Least(Yielding(c, env, sess))], env, sess))

\* what any provider resolves to from the sources as they are now
ResolvedProvider(p, env, sess) ==
    IF p.kind = "ChainProvider" THEN Resolved(p, env, sess)
    ELSE Return(SourceValue(p, env, sess))

UpTo(n) == [k \in 1..n |-> k]

----------------------------------------------------------------------------
(* Claims on ChainProvider (SpecChain) *)

\* C1: when Pi is the first provider of the chain whose provide() is not
\* None, provide() returns conversion_func(Pi.provide()), or Pi.provide()
\* itself without a conversion function, and exactly P1..Pi were invoked:
\* none of P(i+1)..Pn.
C1_FirstNonAbsentWins ==
    (result.op = "provide" /\ Yielding(chain, environ, session) # {}) =>
        LET i == Least(Yielding(chain, environ, session))
            v == SourceValue(chain.providers[i], environ, session)
        IN /\ result.out = Converted(chain.conv, v)
           /\ result.invoked = UpTo(i)

\* a converted value won in the middle of the chain: an absent provider
\* before it, a provider after it that was not invoked
C1_Witness ==
    /\ result.op = "provide"
    /\ chain.conv = "int"
    /\ Len(chain.providers) = 3
    /\ chain.providers[1].value = None
    /\ chain.providers[2].value = StrV(<<"7">>)
    /\ chain.providers[3].value = IntV(0)
    /\ result.out = Return(IntV(7))
    /\ result.invoked = <<1, 2>>

\* C8: when every provider of the chain returns None, the empty chain
\* included, provide() returns None, having invoked every provider, and
\* the conversion function was not called.
C8_AllAbsentNoConversion ==
    (result.op = "provide" /\ Yielding(chain, environ, session) = {}) =>
        /\ result.out = Return(None)
        /\ result.converted = <<>>
        /\ result.invoked = UpTo(Len(chain.providers))

\* a chain of two absent providers with int, which fails on None
C8_Witness ==
    /\ result.op = "provide"
    /\ chain.conv = "int"
    /\ PyInt(None).raised = "TypeError"
    /\ Len(chain.providers) = 2
    /\ \A i \in 1..2 : chain.providers[i].value = None
    /\ result.out = Return(None)

----------------------------------------------------------------------------
(* Claims on ConfigChainFactory and EnvironmentProvider (SpecFactory) *)

\* the stage a supplied parameter adds, in the order of precedence
ExpectedStages(ps) ==
    (IF ps.instance_name # NoneArg
     THEN <<[kind |-> "InstanceVarProvider", var |-> ps.instance_name]>>
     ELSE <<>>)
    \o (IF ps.env_var_names # NoneNames
        THEN <<[kind |-> "EnvironmentProvider", names |-> ps.env_var_names]>>
        ELSE <<>>)
    \o (IF ps.config_property_name # NoneArg
        THEN <<[kind |-> "ScopedConfigProvider",
                var |-> ps.config_property_name]>>
        ELSE <<>>)
    \o (IF ps.default # None
        THEN <<[kind |-> "ConstantProvider", value |-> ps.default]>>
        ELSE <<>>)

\* the values the four sources hold for the parameters, by precedence
StageValues(ps, env, sess) ==
    << IF ps.instance_name = NoneArg THEN None
       ELSE SourceValue([kind |-> "InstanceVarProvider",
                         var |-> ps.instance_name], env, sess),
       IF ps.env_var_names = NoneNames THEN None
       ELSE SourceValue([kind |-> "EnvironmentProvider",
                         names |-> ps.env_var_names], env, sess),
       IF ps.config_property_name = NoneArg THEN None
       ELSE SourceValue([kind |-> "ScopedConfigProvider",
                         var |-> ps.config_property_name], env, sess),
       ps.default >>

\* C3: the chain has exactly one stage per supplied parameter, in the
\* order instance variable, environment, config property, default, and
\* provide() resolves to the (converted) value of the highest-precedence
\* source that yields one, None when none does.
C3_FactoryPrecedence ==
    /\ chain # NoChain =>
        /\ chain.providers = ExpectedStages(params)
        /\ chain.conv = params.conversion_func
    /\ result.op = "provide" =>
        LET vals == StageValues(params, environ, session)
            won == {k \in 1..4 : vals[k] # None}
        IN result.out = IF won = {} THEN Return(None)
                        ELSE Converted(params.conversion_func,
                                       vals[Least(won)])

\* all four stages supplied; the instance variable is unset, the
\* environment, the config file and the default all yield: the
\* environment wins
C3_Witness ==
    /\ result.op = "provide"
    /\ Len(chain.providers) = 4
    /\ session.instance_variables["region"] = NoKey
    /\ environ["AWS_DEFAULT_REGION"] = StrV(<<"7">>)
    /\ params.env_var_names = NameStr("AWS_DEFAULT_REGION")
    /\ session.scoped_config["region"] = StrV(<<"1", "2">>)
    /\ params.default = IntV(1)
    /\ params.conversion_func = "int"
    /\ result.out = Return(IntV(7))

\* C5: EnvironmentProvider.provide() returns env[n] for the first name n,
\* in the order of names (a single name being a one-element list), that
\* is a key of env, and None if no name is; an empty string counts as
\* present, so it wins over later names and over later stages of a chain.
C5_EnvironmentFirstPresentName ==
    (chain # NoChain /\ params.env_var_names # NoneNames) =>
        LET names == params.env_var_names.items
            present == {i \in 1..Len(names) : environ[names[i]] # NoKey}
            expected == IF present = {} THEN None
                        ELSE environ[names[Least(present)]]
            stage == IF params.instance_name = NoneArg THEN 1 ELSE 2
        IN /\ chain.providers[stage].kind = "EnvironmentProvider"
           /\ EnvironmentProvide(chain.providers[stage], environ) = expected
           /\ (/\ result.op = "provide"
               /\ present # {}
               /\ stage = 2 => session.instance_variables[
                                  params.instance_name] \in {NoKey, None})
              => /\ result.out = Converted(params.conversion_func, expected)
                 /\ result.invoked = UpTo(stage)

\* the first name is set to the empty string, the second to "7", the
\* config file and the default yield too: the empty string is returned
C5_Witness ==
    /\ result.op = "provide"
    /\ params.env_var_names =
          NameList(<<"AWS_DEFAULT_REGION", "AWS_METADATA_SERVICE_TIMEOUT">>)
    /\ environ["AWS_DEFAULT_REGION"] = StrV(<<>>)
    /\ environ["AWS_METADATA_SERVICE_TIMEOUT"] = StrV(<<"7">>)
    /\ params.config_property_name = "region"
    /\ session.scoped_config["region"] = StrV(<<"1", "2">>)
    /\ params.default = IntV(1)
    /\ params.conversion_func = NoneArg
    /\ result.out = Return(StrV(<<>>))

\* C10: only default=None drops the default stage; any other default, a
\* falsy one included, is the last stage of the chain and is what
\* provide() returns, after conversion if any, when every earlier stage
\* is absent.
C10_OnlyNoneDefaultDropped ==
    chain # NoChain =>
        LET consts == {i \in 1..Len(chain.providers) :
                          chain.providers[i].kind = "ConstantProvider"}
            vals == StageValues(params, environ, session)
        IN /\ params.default = None => consts = {}
           /\ params.default # None =>
                /\ consts = {Len(chain.providers)}
                /\ chain.providers[Len(chain.providers)].value
                      = params.default
                /\ (result.op = "provide"
                    /\ \A k \in 1..3 : vals[k] = None)
                   => result.out = Converted(params.conversion_func,
                                             params.default)

\* the empty mapping as default (the api_versions chain), after three
\* stages that are all absent
C10_Witness ==
    /\ result.op = "provide"
    /\ params.default = EmptyDict
    /\ Len(chain.providers) = 4
    /\ params.conversion_func = NoneArg
    /\ result.invoked = <<1, 2, 3, 4>>
    /\ result.out = Return(EmptyDict)

----------------------------------------------------------------------------
(* Claims on ConfigValueStore (Spec) *)

\* the last step was this call on the store
Called(op) == result'.op = op

\* C2: set_config_variable(name, v) makes v the override of name; the
\* override of a name changes only by a set or a clear of that name (not
\* by set_config_provider, nor by a change of the environment or the
\* session); and while name has an override, get_config_variable(name)
\* returns exactly it, falsy or not, without consulting the provider.
C2_OverrideWinsUntilCleared ==
    [][ /\ Called("set_config_variable") =>
            overrides'[result'.name] = result'.arg
        /\ \A n \in LogicalNames :
            overrides'[n] # overrides[n] =>
                /\ result'.op \in {"set_config_variable",
                                   "clear_config_variable"}
                /\ result'.name = n
        /\ (Called("get_config_variable")
            /\ overrides'[result'.name] # NoKey) =>
                /\ result'.out = Return(overrides'[result'.name])
                /\ ~result'.consulted
                /\ result'.invoked = <<>>
      ]_vars

\* the override of region is the empty string while the environment
\* holds a region the bound chain would resolve to: the get returns ""
C2_Witness ==
    /\ result.op = "get_config_variable"
    /\ result.name = "region"
    /\ overrides["region"] = StrV(<<>>)
    /\ mapping["region"] = DefaultConfigMapping["region"]
    /\ environ["AWS_DEFAULT_REGION"] = StrV(<<"7">>)
    /\ result.out = Return(StrV(<<>>))
    /\ ~result.consulted

\* C4: when the conversion function rejects the value of the winning
\* provider, get_config_variable raises that error: it does not return
\* None, no provider after the winner is invoked, and the override map and
\* the provider mapping are as before the call.
C4_ConversionErrorPropagates ==
    [][ Called("get_config_variable") =>
          /\ overrides' = overrides
          /\ mapping' = mapping
          /\ LET p == mapping[result'.name]
             IN (/\ overrides[result'.name] = NoKey
                 /\ p # NoProvider
                 /\ p.kind = "ChainProvider"
                 /\ Yielding(p, environ, session) # {}
                 /\ Resolved(p, environ, session).raised # "")
                => /\ result'.out = Resolved(p, environ, session)
                   /\ result'.out.raised \in {"ValueError", "TypeError"}
                   /\ result'.invoked =
                         UpTo(Least(Yielding(p, environ, session)))
      ]_vars

\* AWS_METADATA_SERVICE_TIMEOUT is the empty string: int rejects it and
\* the error comes out of the get, the default 1 of the chain unused
C4_Witness ==
    /\ result.op = "get_config_variable"
    /\ result.name = "metadata_service_timeout"
    /\ mapping["metadata_service_timeout"]
          = DefaultConfigMapping["metadata_service_timeout"]
    /\ session.instance_variables["metadata_service_timeout"] = NoKey
    /\ environ["AWS_METADATA_SERVICE_TIMEOUT"] = StrV(<<>>)
    /\ result.out = Raise("ValueError")
    /\ result.invoked = <<1, 2>>

\* C6: clear_config_variable(name) does not raise, leaves name without an
\* override, and changes neither the override of another name nor the
\* provider mapping (so with no override of name it changes nothing); a
\* get of a name without an override returns what the provider bound to
\* the name provides, None when none is bound.
C6_ClearRemovesOnlyThatOverride ==
    [][ /\ Called("clear_config_variable") =>
            /\ result'.out = Return(None)
            /\ overrides'[result'.name] = NoKey
            /\ \A n \in LogicalNames \ {result'.name} :
                  overrides'[n] = overrides[n]
            /\ mapping' = mapping
            /\ overrides[result'.name] = NoKey => overrides' = overrides
        /\ (Called("get_config_variable")
            /\ overrides'[result'.name] = NoKey) =>
                result'.out =
                    IF mapping'[result'.name] = NoProvider
                    THEN Return(None)
                    ELSE ResolvedProvider(mapping'[result'.name],
                                          environ', session')
      ]_vars

\* region was cleared while metadata_service_timeout keeps its override
C6_Witness ==
    /\ result.op = "clear_config_variable"
    /\ result.name = "region"
    /\ overrides["region"] = NoKey
    /\ overrides["metadata_service_timeout"] = IntV(0)
    /\ mapping["region"] # NoProvider

\* C7: set_config_provider(name, p) binds p to name and changes neither
\* the provider of another name nor the override map; a later get of a
\* name without an override consults the provider bound now and returns
\* what it resolves to, while a name with an override returns the override.
C7_SetProviderRebindsOnlyThatName ==
    [][ /\ Called("set_config_provider") =>
            /\ mapping'[result'.name] = result'.arg
            /\ \A n \in LogicalNames \ {result'.name} :
                  mapping'[n] = mapping[n]
            /\ overrides' = overrides
        /\ Called("get_config_variable") =>
            IF overrides'[result'.name] # NoKey
            THEN result'.out = Return(overrides'[result'.name])
            ELSE IF mapping'[result'.name] = NoProvider
            THEN result'.out = Return(None) /\ ~result'.consulted
            ELSE /\ result'.consulted
                 /\ result'.out = ResolvedProvider(mapping'[result'.name],
                                                   environ', session')
      ]_vars

\* region, bound by the constructor to its chain, was rebound to a
\* constant: the get returns the constant although the environment holds
\* a region, and the other name still has its constructor chain
C7_Witness ==
    /\ result.op = "get_config_variable"
    /\ result.name = "region"
    /\ overrides["region"] = NoKey
    /\ mapping["region"] = ConstantProvider(StrV(<<"c">>))
    /\ mapping["metadata_service_timeout"]
          = DefaultConfigMapping["metadata_service_timeout"]
    /\ environ["AWS_DEFAULT_REGION"] = StrV(<<"7">>)
    /\ result.out = Return(StrV(<<"c">>))

\* C9: a get of a name without an override returns the value resolved
\* from the environment and the session as they are at the call, whatever
\* they were at construction or at an earlier call, and the call changes
\* neither the environment nor the session.
C9_NoCaching ==
    [][ Called("get_config_variable") =>
          /\ environ' = environ
          /\ session' = session
          /\ (/\ overrides[result'.name] = NoKey
              /\ mapping[result'.name] # NoProvider)
             => result'.out = ResolvedProvider(mapping[result'.name],
                                               environ, session)
      ]_vars

\* sources that were all empty at construction: the config file now holds
\* a timeout and the get resolves to it, converted
C9_Witness ==
    /\ result.op = "get_config_variable"
    /\ result.name = "metadata_service_timeout"
    /\ overrides["metadata_service_timeout"] = NoKey
    /\ mapping["metadata_service_timeout"]
          = DefaultConfigMapping["metadata_service_timeout"]
    /\ session.instance_variables["metadata_service_timeout"] = NoKey
    /\ environ["AWS_METADATA_SERVICE_TIMEOUT"] = NoKey
    /\ session.scoped_config["metadata_service_timeout"]
          = StrV(<<"1", "2">>)
    /\ result.out = Return(IntV(12))

====
